---------------------------- MODULE Spec2Model ----------------------------
(***************************************************************************)
(* A model of the Snowflake data-quality dashboard:                        *)
(*   - helper_scripts/col_desc.py   SnowflakeSchemaDescriber               *)
(*   - helper_scripts/dmf_definitions.py   get_dmf_functions               *)
(*   - helper_scripts/cortex_complete.py   get_cortex_completion           *)
(*   - app.py   the Streamlit script, re-run once per user interaction     *)
(*                                                                         *)
(* Text that the code splits, trims and searches (schema documents, table  *)
(* names handed to filter_schema) is a sequence of one-character strings.  *)
(* Python's 0-based list positions are 1-based sequence positions here.    *)
(***************************************************************************)
EXTENDS Integers, Sequences, FiniteSets, TLC

VARIABLES
    \* ---- one call of SnowflakeSchemaDescriber.filter_schema ----
    table_name,     \* argument table_name
    schema_text,    \* argument schema_text
    sims,           \* the embedding model: trimmed chunk text -> similarity to the query
    tie,            \* how np.argsort orders equal similarities: position -> rank
    fs_pc,          \* "ready" before the call, "done" after
    fs_out,         \* outcome of the call
    \* ---- the Streamlit session of app.py ----
    conn_cache,     \* st.cache_resource of init_connection: -1 not called yet,
                    \* 0 a cached None, n > 0 the n-th connection made
    connects,       \* calls of snowflake.connector.connect made by app.py
    qcache,         \* st.cache_data of run_query: statement -> cached DataFrame
    colcache,       \* st.cache_data of get_columns_for_table: table -> cached entry
    stored,         \* the entries of qcache and colcache, the oldest first
    describer_cache,\* st.cache_resource of get_describer: "unset", "None" or "describer"
    schema_cache,   \* st.cache_data of get_schema_text: <<>> not called yet, else <<text>>
    runs,           \* script runs (user interactions) so far
    user,           \* the user of this session: what they select, and how often
    pc,             \* position of the current script run, "idle" between runs
    selected_table, \* sidebar selectbox
    action,         \* sidebar radio
    screen,         \* elements rendered by the current run, in order
    log,            \* calls made by the current run, in order
    selected_table_dmf,     \* argument of show_dmf_controls
    selected_function_name, \* DMF selectbox
    selected_column,        \* column selectbox ("" stands for None)
    final_function_sql,     \* the SQL fragment built at lines 170-173
    \* ---- the scripts col_desc.py and cortex_complete.py run on their own ----
    prog,           \* the script that is run, "none" when neither is
    cx_pc,          \* position in the script
    cx_conn,        \* the script's connection: "none", "open" or "closed"
    cx_reply,       \* what the warehouse did with the completion statement
    cx_out,         \* how the completion function ended: returned text or raised
    cx_file         \* what was written to the output file, <<>> if nothing

fvars == <<table_name, schema_text, sims, tie, fs_pc, fs_out>>

\* what lives as long as the Streamlit server process
session_vars == <<conn_cache, connects, qcache, colcache, stored, describer_cache,
                  schema_cache, runs, user>>

\* the caches of the describe branch
describe_vars == <<describer_cache, schema_cache>>

\* what one run of the script sets
run_vars == <<pc, selected_table, action, screen, log>>

dmf_vars == <<selected_table_dmf, selected_function_name, selected_column,
              final_function_sql>>

avars == <<session_vars, run_vars, dmf_vars>>

\* the scripts of helper_scripts run from the command line
cvars == <<prog, cx_pc, cx_conn, cx_reply, cx_out, cx_file>>

vars == <<fvars, avars, cvars>>

(***************************************************************************)
(* Bounds of the model.                                                    *)
(***************************************************************************)
\* longest schema document enumerated character by character
MaxLen == 5
\* most blocks in a document assembled from whole blocks
MaxBlocks == 6
\* similarities range over 0..MaxSim (only their order matters)
MaxSim == 1

(***************************************************************************)
(* Characters and Python string helpers.                                   *)
(***************************************************************************)
Alphabet == {"a", "B", " ", "\n"}

\* str.isspace for the characters of the alphabet (what \s and strip() eat)
IsSpace(c) == c \in {" ", "\n"}

UpperLetters ==
    <<"A", "B", "C", "D", "E", "F", "G", "H", "I", "J", "K", "L", "M",
      "N", "O", "P", "Q", "R", "S", "T", "U", "V", "W", "X", "Y", "Z">>

LowerLetters ==
    <<"a", "b", "c", "d", "e", "f", "g", "h", "i", "j", "k", "l", "m",
      "n", "o", "p", "q", "r", "s", "t", "u", "v", "w", "x", "y", "z">>

\* str.lower, one character
LowerChar(c) ==
    IF \E i \in 1..26 : UpperLetters[i] = c
    THEN LowerLetters[CHOOSE i \in 1..26 : UpperLetters[i] = c]
    ELSE c

\* str.lower
Lower(s) == [i \in 1..Len(s) |-> LowerChar(s[i])]

\* s[i..j] (empty when j < i)
Slice(s, i, j) == IF j < i THEN <<>> ELSE SubSeq(s, i, j)

\* str.strip(): drop leading and trailing whitespace
Strip(s) ==
    LET keep == {i \in 1..Len(s) : ~IsSpace(s[i])}
    IN  IF keep = {} THEN <<>>
        ELSE Slice(s, CHOOSE i \in keep : \A k \in keep : i <= k,
                      CHOOSE j \in keep : \A k \in keep : k <= j)

\* Python's `sub in s` on strings
Contains(sub, s) ==
    \E i \in 1..(Len(s) - Len(sub) + 1) : Slice(s, i, i + Len(sub) - 1) = sub

(***************************************************************************)
(* re.split(r'\n\s*\n', text)                                              *)
(***************************************************************************)
\* End of the match of \n\s*\n starting at position i, or 0 when there is none.
\* \s* is greedy and \s also matches \n, so the match ends at the last newline
\* of the whitespace run that follows position i.
SepEnd(text, i) ==
    IF text[i] # "\n" THEN 0
    ELSE LET ends == {j \in (i + 1)..Len(text) :
                        /\ text[j] = "\n"
                        /\ \A k \in (i + 1)..j : IsSpace(text[k])}
         IN  IF ends = {} THEN 0
             ELSE CHOOSE j \in ends : \A k \in ends : k <= j

RECURSIVE SplitFrom(_, _)
\* the pieces re.split returns for text[start..]: scan for the leftmost match
SplitFrom(text, start) ==
    LET hits == {i \in start..Len(text) : SepEnd(text, i) # 0}
    IN  IF hits = {} THEN <<Slice(text, start, Len(text))>>
        ELSE LET i == CHOOSE h \in hits : \A k \in hits : h <= k
             IN  <<Slice(text, start, i - 1)>> \o SplitFrom(text, SepEnd(text, i) + 1)

ReSplit(text) == SplitFrom(text, 1)

RECURSIVE StripNonEmpty(_)
RECURSIVE KeepUntrimmed(_)
\* a variant that filters on chunk.strip() but keeps the chunk untrimmed
KeepUntrimmed(pieces) ==
    IF pieces = <<>> THEN <<>>
    ELSE (IF Strip(Head(pieces)) = <<>> THEN <<>> ELSE <<Head(pieces)>>)
         \o KeepUntrimmed(Tail(pieces))

\* a variant that trims every piece but keeps the empty ones
StripKeepEmpty(pieces) == [i \in 1..Len(pieces) |-> Strip(pieces[i])]

\* [chunk.strip() for chunk in pieces if chunk.strip()]
StripNonEmpty(pieces) ==
    IF pieces = <<>> THEN <<>>
    ELSE LET c == Strip(Head(pieces))
         IN  (IF c = <<>> THEN <<>> ELSE <<c>>) \o StripNonEmpty(Tail(pieces))

\* col_desc.py line 96
schema_chunks(text) == StripNonEmpty(ReSplit(text))


(***************************************************************************)
(* SnowflakeSchemaDescriber.score_schema and filter_schema                 *)
(***************************************************************************)
\* score_schema: how many of input_params occur in schema_str, ignoring case
score_schema(schema_str, input_params) ==
    Cardinality({k \in 1..Len(input_params) :
                    Contains(Lower(input_params[k]), Lower(schema_str))})

\* min(5, len(schema_chunks)), col_desc.py line 112
TopK == 5
\* a variant that keeps three candidates at most
TopThree(chunks) == IF Len(chunks) < 3 THEN Len(chunks) ELSE 3

top_n(chunks) == IF Len(chunks) < TopK THEN Len(chunks) ELSE TopK

\* How np.argsort may order equal keys: its default sort (kind=None, an
\* introsort) is not a stable one and promises no order among equal keys, so
\* every order is allowed for.  A tie order over n positions gives each
\* position a rank of its own; of two positions of equal similarity the one of
\* lower rank comes first.
TieOrders(n) == IF n = 0 THEN {<<>>} ELSE Permutations(1..n)

\* the tie orders that give different results of np.argsort for these
\* similarities, each result once: those whose ranks are ascending in the
\* similarity, so that a position's rank is its place in the result
ArgSortTies(chunks, sm) ==
    {tb \in TieOrders(Len(chunks)) :
        \A i, j \in 1..Len(chunks) : sm[chunks[i]] < sm[chunks[j]] => tb[i] < tb[j]}

\* np.argsort(similarities): the positions ordered by ascending similarity.
\* (Here and below, `\o <<>>` leaves a sequence as it is and has TLC compute its
\* entries once.)
ArgSort(chunks, sm, tb) ==
    LET n == Len(chunks)
        Before(i, j) ==
            \/ sm[chunks[i]] < sm[chunks[j]]
            \/ /\ sm[chunks[i]] = sm[chunks[j]]
               /\ tb[i] < tb[j]
        rank == [i \in 1..n |-> Cardinality({j \in 1..n : Before(j, i)}) + 1] \o <<>>
    IN  [p \in 1..n |-> CHOOSE i \in 1..n : rank[i] = p]

\* np.argsort(similarities)[-top_n:][::-1]: the last top_n positions, reversed
top_indices_semantic(chunks, sm, tb) ==
    LET order == ArgSort(chunks, sm, tb)
        n == Len(chunks)
    IN  [p \in 1..top_n(chunks) |-> order[n - p + 1]]

\* [schema_chunks[i] for i in top_indices_semantic]
candidate_schemas(chunks, sm, tb) ==
    LET idx == top_indices_semantic(chunks, sm, tb)
    IN  [p \in 1..Len(idx) |-> chunks[idx[p]]]

\* a variant whose re-rank leaves the semantic order as it is
RankedBySimilarityOnly(cands, input_keywords) == cands

\* a variant whose re-rank puts the later of two candidates of equal score first
RankedLaterFirst(cands, input_keywords) ==
    LET n == Len(cands)
        key == [i \in 1..n |-> score_schema(cands[i], input_keywords)] \o <<>>
        Before(i, j) ==
            \/ key[i] > key[j]
            \/ /\ key[i] = key[j]
               /\ i > j
        rank == [i \in 1..n |-> Cardinality({j \in 1..n : Before(j, i)}) + 1] \o <<>>
    IN  [p \in 1..n |-> cands[CHOOSE i \in 1..n : rank[i] = p]]

\* sorted(candidate_schemas, key=score, reverse=True): Python's sort is stable,
\* also with reverse=True, so equal scores keep their order in the candidate list
ranked_schemas(cands, input_keywords) ==
    LET n == Len(cands)
        key == [i \in 1..n |-> score_schema(cands[i], input_keywords)] \o <<>>
        Before(i, j) ==
            \/ key[i] > key[j]
            \/ /\ key[i] = key[j]
               /\ i < j
        rank == [i \in 1..n |-> Cardinality({j \in 1..n : Before(j, i)}) + 1] \o <<>>
    IN  [p \in 1..n |-> cands[CHOOSE i \in 1..n : rank[i] = p]]

\* ranked_schemas[0]
best_schema(ranked) == ranked[1]

\* filter_schema(table_name, schema_text): the outcome of one call.
\*   kind        "return" or "ValueError" (raised at line 99)
\*   value       the returned string
\*   encoded     whether self.model.encode was reached (lines 102, 106)
\*   candidates  candidate_schemas as built at line 116
filter_schema(tn, text, sm, tb) ==
    LET chunks == schema_chunks(text)
    IN  IF chunks = <<>>
        THEN [kind |-> "ValueError", value |-> <<>>, encoded |-> FALSE,
              candidates |-> <<>>]
        ELSE LET input_keywords == <<tn>>
                 cands == candidate_schemas(chunks, sm, tb)
                 ranked == ranked_schemas(cands, input_keywords)
             IN  [kind |-> "return", value |-> best_schema(ranked),
                  encoded |-> TRUE, candidates |-> cands]

(***************************************************************************)
(* Inputs of filter_schema.                                                *)
(***************************************************************************)
\* every text of at most n characters
RECURSIVE TextsUpTo(_)
TextsUpTo(n) ==
    IF n = 0 THEN {<<>>}
    ELSE LET shorter == TextsUpTo(n - 1)
         IN  shorter \cup {Append(t, c) : t \in shorter, c \in Alphabet}

CharDocs == TextsUpTo(MaxLen)

\* blocks that documents of many blocks are assembled from
Blocks == {<<"a">>, <<"B">>}

RECURSIVE JoinBlocks(_)
\* "\n\n".join(blocks)
JoinBlocks(bs) ==
    IF Len(bs) = 1 THEN bs[1]
    ELSE bs[1] \o <<"\n", "\n">> \o JoinBlocks(Tail(bs))

BlockDocs ==
    UNION {{JoinBlocks(bs) : bs \in [1..n -> Blocks]} : n \in 1..MaxBlocks}

Docs == CharDocs \cup BlockDocs

TableNames == {<<"b">>, <<"a">>, <<"A", "b">>}

\* the set of distinct elements of a sequence
Range(s) == {s[i] : i \in 1..Len(s)}

NoOutcome == [kind |-> "none", value |-> <<>>, encoded |-> FALSE, candidates |-> <<>>]

NoReply == [kind |-> "none", fault |-> [cause |-> "none", exc |-> "none"], text |-> ""]
NoResult == [kind |-> "none", text |-> ""]

\* neither script of helper_scripts is run
ScriptsOff ==
    /\ prog = "none"
    /\ cx_pc = "off"
    /\ cx_conn = "none"
    /\ cx_reply = NoReply
    /\ cx_out = NoResult
    /\ cx_file = <<>>

\* the session variables while filter_schema is looked at on its own
AppStart ==
    /\ user = [runs |-> 0, tables |-> {}, functions |-> {}]
    /\ conn_cache = -1
    /\ connects = 0
    /\ qcache = <<>>
    /\ colcache = <<>>
    /\ stored = <<>>
    /\ describer_cache = "unset"
    /\ schema_cache = <<>>
    /\ runs = 0
    /\ pc = "idle"
    /\ selected_table = ""
    /\ action = ""
    /\ screen = <<>>
    /\ log = <<>>
    /\ selected_table_dmf = ""
    /\ selected_function_name = ""
    /\ selected_column = ""
    /\ final_function_sql = ""

FilterInit ==
    /\ AppStart
    /\ ScriptsOff
    /\ table_name \in TableNames
    /\ schema_text \in Docs
    /\ sims \in [Range(schema_chunks(schema_text)) -> 0..MaxSim]
    /\ \E chunks \in {schema_chunks(schema_text)} : tie \in ArgSortTies(chunks, sims)
    /\ fs_pc = "ready"
    /\ fs_out = NoOutcome

\* describer.filter_schema(table_name, schema_text)
FilterSchemaCall ==
    /\ fs_pc = "ready"
    /\ fs_out' = filter_schema(table_name, schema_text, sims, tie)
    /\ fs_pc' = "done"
    /\ UNCHANGED <<table_name, schema_text, sims, tie>>
    /\ UNCHANGED avars
    /\ UNCHANGED cvars

FilterNext == FilterSchemaCall

SpecFilter == FilterInit /\ [][FilterNext]_vars


(***************************************************************************)
(* Properties of filter_schema, checked under SpecFilter.                  *)
(***************************************************************************)
\* The blocks of a document as the specification describes them, stated on
\* positions rather than by scanning: two non-blank characters belong to the
\* same block unless a blank-line boundary (two newlines with nothing but
\* whitespace between them) lies between them; a block runs from its first to
\* its last non-blank character.
SameBlock(text, i, j) ==
    ~\E p, q \in i..j :
        /\ p < q
        /\ text[p] = "\n"
        /\ text[q] = "\n"
        /\ \A k \in p..q : IsSpace(text[k])

BlockStarts(text) ==
    {i \in 1..Len(text) :
        /\ ~IsSpace(text[i])
        /\ \A h \in 1..(i - 1) : IsSpace(text[h]) \/ ~SameBlock(text, h, i)}

BlockEnd(text, i) ==
    CHOOSE j \in i..Len(text) :
        /\ ~IsSpace(text[j])
        /\ SameBlock(text, i, j)
        /\ \A k \in (j + 1)..Len(text) : IsSpace(text[k]) \/ ~SameBlock(text, i, k)

\* the set of trimmed blocks of the document
DocBlocks(text) == {Slice(text, i, BlockEnd(text, i)) : i \in BlockStarts(text)}

\* positions of the chunk list whose block contains the table name, ignoring case
Matching(tn, chunks) ==
    {i \in 1..Len(chunks) : Contains(Lower(tn), Lower(chunks[i]))}

\* the number of blocks other than block i that are at least as similar as it
AtLeastAsSimilar(chunks, sm, i) ==
    Cardinality({j \in 1..Len(chunks) : j # i /\ sm[chunks[j]] >= sm[chunks[i]]})

\* C1 as stated: whenever exactly one block contains the table name, ignoring
\* case, filter_schema returns that block, whatever the similarities are and
\* however many blocks the document has.
C1_UniqueMatchAlwaysReturned ==
    LET chunks == schema_chunks(schema_text)
        m == Matching(table_name, chunks)
    IN  (fs_pc = "done" /\ Cardinality(m) = 1) =>
            /\ fs_out.kind = "return"
            /\ \A i \in m : fs_out.value = chunks[i]

\* C1 as amended: when exactly one block contains the table name, ignoring
\* case, filter_schema returns that block exactly when it is among the
\* min(5, N) semantic candidates; it is among them whenever the document has at
\* most 5 blocks or fewer than 5 other blocks are at least as similar as it.
C1_UniqueMatchReturnedIffCandidate ==
    LET chunks == schema_chunks(schema_text)
        m == Matching(table_name, chunks)
    IN  (fs_pc = "done" /\ Cardinality(m) = 1) =>
            /\ fs_out.kind = "return"
            /\ \A i \in m :
                /\ fs_out.value = chunks[i] <=> chunks[i] \in Range(fs_out.candidates)
                /\ (Len(chunks) <= TopK \/ AtLeastAsSimilar(chunks, sims, i) < TopK)
                      => fs_out.value = chunks[i]

\* C1 witness: the only matching block is the least similar of several blocks,
\* and it is the one returned.
C1_Witness ==
    LET chunks == schema_chunks(schema_text)
        m == Matching(table_name, chunks)
    IN  /\ fs_pc = "done"
        /\ Cardinality(m) = 1
        /\ Len(chunks) >= 3
        /\ \A i \in m : /\ fs_out.value = chunks[i]
                        /\ \A j \in 1..Len(chunks) :
                              j # i => sims[chunks[j]] > sims[chunks[i]]

\* C3: for a document with N >= 1 blocks, filter_schema returns exactly one of
\* the N trimmed blocks, unchanged (and the chunk list it works on consists of
\* exactly those blocks).
C3_ReturnsOneBlockVerbatim ==
    (fs_pc = "done" /\ DocBlocks(schema_text) # {}) =>
        /\ fs_out.kind = "return"
        /\ fs_out.value \in DocBlocks(schema_text)
        /\ Range(schema_chunks(schema_text)) = DocBlocks(schema_text)

\* C3 witness: a document of two different blocks, one of which had to be
\* trimmed, and the second of which is returned.
C3_Witness ==
    LET chunks == schema_chunks(schema_text)
        pieces == ReSplit(schema_text)
    IN  /\ fs_pc = "done"
        /\ Len(chunks) = 2
        /\ chunks[1] # chunks[2]
        /\ \E k \in 1..Len(pieces) : pieces[k] # <<>> /\ Strip(pieces[k]) # pieces[k]
        /\ fs_out.kind = "return"
        /\ fs_out.value = chunks[2]

\* C8: for an empty or whitespace-only document filter_schema raises the
\* empty-schema ValueError before any embedding is computed, and returns
\* nothing.
C8_WhitespaceOnlyRaises ==
    (fs_pc = "done" /\ \A i \in 1..Len(schema_text) : IsSpace(schema_text[i])) =>
        /\ fs_out.kind = "ValueError"
        /\ ~fs_out.encoded

\* C8 witness: a non-empty document of blank lines only has been refused.
C8_Witness ==
    /\ fs_pc = "done"
    /\ Len(schema_text) >= 3
    /\ \A i \in 1..Len(schema_text) : IsSpace(schema_text[i])
    /\ \E i \in 1..Len(schema_text) : schema_text[i] = "\n"
    /\ fs_out.kind = "ValueError"


(***************************************************************************)
(* dmf_definitions.py: the DMF catalog.                                    *)
(* A template is the sequence of pieces str.format sees in it: literal     *)
(* text, and the replacement field "{column}" as a piece of its own.       *)
(***************************************************************************)
\* list(dmf_functions.keys()), in the order of the dict literal
DmfNames ==
    <<"ROW_COUNT", "NULL_COUNT", "NOT_NULL_COUNT", "UNIQUE_COUNT",
      "DUPLICATE_COUNT", "AVERAGE", "SUM", "MIN", "MAX", "STDDEV",
      "MIN_LENGTH", "MAX_LENGTH", "AVG_LENGTH">>

\* a variant of the catalog in which NULL_COUNT names the column twice
DmfFunctionsNullCountTwice ==
    [name \in Range(DmfNames) |->
        CASE name = "ROW_COUNT" -> <<"COUNT(*)">>
          [] name = "DUPLICATE_COUNT" ->
                <<"COUNT(", "{column}", ") - COUNT(DISTINCT ", "{column}", ")">>
          [] OTHER -> <<"COUNT_IF(", "{column}", " IS NULL OR ", "{column}", " = '')">>]

\* get_dmf_functions()
get_dmf_functions ==
    [name \in Range(DmfNames) |->
        CASE name = "ROW_COUNT" -> <<"COUNT(*)">>
          [] name = "NULL_COUNT" -> <<"COUNT_IF(", "{column}", " IS NULL)">>
          [] name = "NOT_NULL_COUNT" -> <<"COUNT_IF(", "{column}", " IS NOT NULL)">>
          [] name = "UNIQUE_COUNT" -> <<"COUNT(DISTINCT ", "{column}", ")">>
          [] name = "DUPLICATE_COUNT" ->
                <<"COUNT(", "{column}", ") - COUNT(DISTINCT ", "{column}", ")">>
          [] name = "AVERAGE" -> <<"AVG(", "{column}", ")">>
          [] name = "SUM" -> <<"SUM(", "{column}", ")">>
          [] name = "MIN" -> <<"MIN(", "{column}", ")">>
          [] name = "MAX" -> <<"MAX(", "{column}", ")">>
          [] name = "STDDEV" -> <<"STDDEV(", "{column}", ")">>
          [] name = "MIN_LENGTH" -> <<"MIN(LENGTH(", "{column}", "))">>
          [] name = "MAX_LENGTH" -> <<"MAX(LENGTH(", "{column}", "))">>
          [] name = "AVG_LENGTH" -> <<"AVG(LENGTH(", "{column}", "))">>]

\* the replacement field of the templates
Placeholder == "{column}"

RECURSIVE ConcatAll(_)
\* "".join(pieces)
ConcatAll(pieces) ==
    IF pieces = <<>> THEN "" ELSE Head(pieces) \o ConcatAll(Tail(pieces))

\* the template as the plain string the dict holds
TemplateText(template) == ConcatAll(template)

\* "{column}" in function_template, app.py line 150
requires_column(template) == \E i \in 1..Len(template) : template[i] = Placeholder

\* a variant that substitutes the bare column name, without the quotes
FormatUnquoted(template, column) ==
    ConcatAll([i \in 1..Len(template) |->
                 IF template[i] = Placeholder THEN column ELSE template[i]])

\* function_template.format(column=f'"{selected_column}"'), app.py line 171:
\* every replacement field becomes the column name in double quotes
FormatColumn(template, column) ==
    ConcatAll([i \in 1..Len(template) |->
                 IF template[i] = Placeholder THEN "\"" \o column \o "\""
                 ELSE template[i]])


(***************************************************************************)
(* app.py: what the script renders and calls.                              *)
(***************************************************************************)
\* app.py line 209
TABLE_LIST == <<"ASSETMASTER", "PORTFOLIO", "AUMDETAILS">>

\* the options of the sidebar radio, app.py lines 220-224
ActionOptions ==
    <<"1. Data Quality Analysis", "2. View Cleaned Data", "3. Describe Table Columns">>

\* an element rendered by st.<kind>: its text, the statement or call whose
\* result it shows ("" when none) and the number it shows (0 when none)
El(kind, label, src, value) ==
    [kind |-> kind, label |-> label, src |-> src, value |-> value]

\* a call made by the script: a SQL statement sent over connection `conn`, or a
\* call of the describer; `text` is the document handed over (<<>> for SQL)
Call(op, stmt, conn, ok, text) ==
    [op |-> op, stmt |-> stmt, conn |-> conn, ok |-> ok, text |-> text]

\* a pandas DataFrame, as far as the script looks at it: its shape and the
\* cell .iloc[0, 0]
EmptyDF == [nrows |-> 0, ncols |-> 1, first |-> 0]
Cell(v) == [nrows |-> 1, ncols |-> 1, first |-> v]
RowsDF == [nrows |-> 2, ncols |-> 2, first |-> 1]

\* DataFrame.empty
IsEmptyDF(df) == df.nrows = 0 \/ df.ncols = 0

\* What the warehouse may answer to a statement sent by run_query: an error
\* (missing relation, bad SQL, permission, lost session) or a result.
CountReplies ==
    {[raised |-> TRUE, df |-> EmptyDF]}
        \cup {[raised |-> FALSE, df |-> d] : d \in {EmptyDF, Cell(0), Cell(2)}}

RowsReplies ==
    {[raised |-> TRUE, df |-> EmptyDF]}
        \cup {[raised |-> FALSE, df |-> d] : d \in {EmptyDF, RowsDF}}

DmfReplies ==
    {[raised |-> TRUE, df |-> EmptyDF]}
        \cup {[raised |-> FALSE, df |-> d] : d \in {Cell(2), RowsDF}}

\* a variant of run_query that swallows the error and hands back an empty
\* DataFrame, as get_columns_for_table does with its empty list
RunQuerySwallowingErrors(cache, query, reply) ==
    IF query \in DOMAIN cache
    THEN [raised |-> FALSE, df |-> cache[query], issued |-> FALSE, cache |-> cache]
    ELSE IF reply.raised
         THEN [raised |-> FALSE, df |-> EmptyDF, issued |-> TRUE, cache |-> cache]
         ELSE [raised |-> FALSE, df |-> reply.df, issued |-> TRUE,
               cache |-> cache @@ (query :> reply.df)]

\* run_query(_conn, query) under @st.cache_data(ttl=600): the key is the
\* statement (the _conn argument is not hashed); a hit returns the cached
\* DataFrame without a call, a miss sends the statement, and only a returned
\* DataFrame is cached: an exception propagates to the caller.
run_query(cache, query, reply) ==
    IF query \in DOMAIN cache
    THEN [raised |-> FALSE, df |-> cache[query], issued |-> FALSE, cache |-> cache]
    ELSE IF reply.raised
         THEN [raised |-> TRUE, df |-> EmptyDF, issued |-> TRUE, cache |-> cache]
         ELSE [raised |-> FALSE, df |-> reply.df, issued |-> TRUE,
               cache |-> cache @@ (query :> reply.df)]

\* the log after run_query: a hit sends nothing; a statement sent is logged
\* with what the warehouse made of it
Logged(r, query, reply) ==
    IF r.issued THEN Append(log, Call("sql", query, conn_cache, ~reply.raised, <<>>))
    ELSE log

\* What the warehouse may answer to DESCRIBE TABLE: the column names, a
\* snowflake.connector.Error, or a failure of another exception class.
ColumnLists == {<<"EMAIL", "ID">>, <<>>}

DescribeReplies ==
    {[kind |-> "Error", columns |-> <<>>], [kind |-> "Exception", columns |-> <<>>]}
        \cup {[kind |-> "columns", columns |-> c] : c \in ColumnLists}

DescribeStmt(t) == "DESCRIBE TABLE " \o t

\* get_columns_for_table(_conn, table_name) under @st.cache_data(ttl=600): the
\* key is table_name. A snowflake.connector.Error is caught inside: st.error is
\* called and [] is returned, and that return value is cached like any other,
\* together with the st.error element, which a later hit replays. Any other
\* exception propagates and nothing is cached.
get_columns_for_table(cache, t, reply) ==
    IF t \in DOMAIN cache
    THEN [raised |-> FALSE, columns |-> cache[t].value, issued |-> FALSE,
          messages |-> cache[t].messages, cache |-> cache]
    ELSE IF reply.kind = "Exception"
         THEN [raised |-> TRUE, columns |-> <<>>, issued |-> TRUE,
               messages |-> <<>>, cache |-> cache]
         ELSE LET msgs == IF reply.kind = "Error"
                          THEN <<El("error", "Error describing table", DescribeStmt(t), 0)>>
                          ELSE <<>>
                  cols == IF reply.kind = "Error" THEN <<>> ELSE reply.columns
              IN  [raised |-> FALSE, columns |-> cols, issued |-> TRUE,
                   messages |-> msgs,
                   cache |-> cache @@ (t :> [value |-> cols, messages |-> msgs])]


(***************************************************************************)
(* The Cortex completion call: col_desc.py describe_with_cortex and         *)
(* cortex_complete.py get_cortex_completion.                               *)
(***************************************************************************)
\* What can go wrong with the statement, and the exception class the
\* Snowflake connector raises for it: ProgrammingError for whatever the server
\* rejects in the statement itself (missing privilege, unknown model, SQL that
\* does not compile), other classes for faults outside the statement.
CortexFaults ==
    {[cause |-> "permission", exc |-> "ProgrammingError"],
     [cause |-> "unknown_model", exc |-> "ProgrammingError"],
     [cause |-> "sql_compilation", exc |-> "ProgrammingError"],
     [cause |-> "network", exc |-> "OperationalError"],
     [cause |-> "session_closed", exc |-> "DatabaseError"]}

NoFault == [cause |-> "none", exc |-> "none"]

\* what cursor.execute / cursor.fetchone do: raise, or fetch a row whose first
\* cell is the generated text, or fetch no row (None)
CortexReplies ==
    {[kind |-> "raise", fault |-> f, text |-> ""] : f \in CortexFaults}
        \cup {[kind |-> "row", fault |-> NoFault, text |-> t] : t \in {"description", ""}}
        \cup {[kind |-> "norow", fault |-> NoFault, text |-> ""]}

\* the texts both functions return
PermissionMessage(e) ==
    "Error executing query. Does the role have USAGE on the SNOWFLAKE.CORTEX functions? Details: "
        \o e
NoResponseMessage == "Error: No response received from Snowflake Cortex."
NoConnectionMessage == "Cannot describe table: No Snowflake connection."
DescribeFailedMessage == "Failed to get description from Snowflake Cortex."
CompletionFailedMessage(e) == "An error occurred: " \o e

\* describe_with_cortex(filtered_schema, model), col_desc.py lines 146-178:
\* what it returns when the statement meets `reply`
describe_with_cortex(has_conn, reply) ==
    IF ~has_conn THEN NoConnectionMessage
    ELSE CASE reply.kind = "row" -> reply.text
           [] reply.kind = "norow" -> NoResponseMessage
           [] reply.kind = "raise" /\ reply.fault.exc = "ProgrammingError" ->
                PermissionMessage(reply.fault.cause)
           [] OTHER -> DescribeFailedMessage


(***************************************************************************)
(* app.py: the script, one run per user interaction.  A step of a run ends *)
(* where the script next waits for the warehouse.                          *)
(***************************************************************************)
\* script runs explored in one session
MaxRuns == 2

\* the table names as filter_schema reads them
TableChars(t) ==
    CASE t = "ASSETMASTER" -> <<"A", "S", "S", "E", "T", "M", "A", "S", "T", "E", "R">>
      [] t = "PORTFOLIO" -> <<"P", "O", "R", "T", "F", "O", "L", "I", "O">>
      [] t = "AUMDETAILS" -> <<"A", "U", "M", "D", "E", "T", "A", "I", "L", "S">>

\* what get_schema_text may hand over: None (<<"None">> here) when the file is
\* missing, else the file's text: an empty file, a file of white space only
\* (a string that is true at line 337 and in which filter_schema finds no
\* block), a file of two blocks
NoSchemaText == <<"None">>
SchemaTexts ==
    {NoSchemaText, <<>>, <<"\n">>,
     JoinBlocks(<<TableChars("ASSETMASTER"), TableChars("PORTFOLIO")>>)}

\* formatted_schema.md is there and cannot be read as UTF-8 text (bytes that
\* are no UTF-8, a directory, no permission): open or read raises an exception
\* other than FileNotFoundError, which get_schema_text does not catch
UnreadableFile == <<"unreadable">>

\* what reading formatted_schema.md gives
SchemaFiles == SchemaTexts \cup {UnreadableFile}

\* the message of the except clause of the branch in which the run is
BranchError(stmt) ==
    IF action = "1. Data Quality Analysis"
    THEN El("error", "An error occurred during analysis", stmt, 0)
    ELSE El("error", "An error occurred while querying", stmt, 0)

\* The sessions explored: one script run from a cold start with every table
\* and every DMF function on offer, and sessions of up to MaxRuns runs in which
\* the user keeps to two tables and to two functions (one without a column,
\* one with).
Users ==
    {[runs |-> 1, tables |-> Range(TABLE_LIST), functions |-> Range(DmfNames)],
     [runs |-> MaxRuns, tables |-> {"ASSETMASTER", "PORTFOLIO"},
      functions |-> {"ROW_COUNT", "NULL_COUNT"}]}

\* The user changes a widget: Streamlit runs the script again from the top.
Interact ==
    /\ pc = "idle"
    /\ runs < user.runs
    /\ runs' = runs + 1
    /\ \E t \in user.tables, a \in Range(ActionOptions) :
          /\ selected_table' = t
          /\ action' = a
    /\ screen' = <<El("title", "Snowflake Data Quality Dashboard", "", 0)>>
    /\ log' = <<>>
    /\ selected_table_dmf' = ""
    /\ selected_function_name' = ""
    /\ selected_column' = ""
    /\ final_function_sql' = ""
    /\ pc' = "init"
    /\ UNCHANGED <<conn_cache, connects, qcache, colcache, stored, user>>
    /\ UNCHANGED describe_vars
    /\ UNCHANGED fvars
    /\ UNCHANGED cvars

\* a variant of init_connection that does not keep a failed attempt: the next
\* run connects again
InitConnectionRetrying(cached, made, ok) ==
    IF cached > 0
    THEN [conn |-> cached, connects |-> made, cache |-> cached, messages |-> <<>>]
    ELSE IF ok
         THEN [conn |-> made + 1, connects |-> made + 1, cache |-> made + 1,
               messages |-> <<>>]
         ELSE [conn |-> 0, connects |-> made + 1, cache |-> -1,
               messages |-> <<El("error", "Failed to connect to Snowflake", "", 0)>>]

\* init_connection() under @st.cache_resource, lines 19-35: the first call
\* connects; what it returns, the connection or None after a failure, is
\* cached for the life of the process together with the st.error element,
\* which a later hit replays.
init_connection(cached, made, ok) ==
    IF cached # -1
    THEN [conn |-> cached, connects |-> made, cache |-> cached,
          messages |-> IF cached = 0
                       THEN <<El("error", "Failed to connect to Snowflake", "", 0)>>
                       ELSE <<>>]
    ELSE IF ok
         THEN [conn |-> made + 1, connects |-> made + 1, cache |-> made + 1,
               messages |-> <<>>]
         ELSE [conn |-> 0, connects |-> made + 1, cache |-> 0,
               messages |-> <<El("error", "Failed to connect to Snowflake", "", 0)>>]

\* how building a SnowflakeSchemaDescriber ends (col_desc.py lines 36-64): the
\* embedding model is loaded first (line 46), then the describer makes a
\* connect call of its own (line 52); either may raise
DescriberOutcomes == {"built", "model_fails", "connect_fails"}

\* get_describer() under @st.cache_resource (lines 37-47): the first call
\* builds a SnowflakeSchemaDescriber; when that raises, st.error is called
\* and None is returned.  A connect call is made unless loading the embedding
\* model has raised before it.  What was returned is cached, the None and its
\* st.error element included, and a later call replays it.
get_describer(cache, outcome) ==
    LET failed == <<El("error", "Failed to initialize the Column Describer", "", 0)>>
    IN  IF cache # "unset"
        THEN [value |-> cache, connects |-> 0, cache |-> cache,
              messages |-> IF cache = "None" THEN failed ELSE <<>>]
        ELSE IF outcome = "built"
             THEN [value |-> "describer", connects |-> 1, cache |-> "describer",
                   messages |-> <<>>]
             ELSE [value |-> "None", cache |-> "None", messages |-> failed,
                   connects |-> IF outcome = "connect_fails" THEN 1 ELSE 0]

\* get_schema_text() under @st.cache_data (lines 50-58): the text of
\* formatted_schema.md, or, when the file is missing, st.error and None
\* (NoSchemaText).  The result is cached without a ttl, the st.error element
\* with it.  Only FileNotFoundError is caught (line 56): any other exception
\* of open or read leaves the function (raised), and nothing is cached.
\* file: what reading the file gives.
get_schema_text(cache, file) ==
    IF cache = <<>> /\ file = UnreadableFile
    THEN [value |-> <<>>, raised |-> TRUE, cache |-> cache, messages |-> <<>>]
    ELSE LET value == IF cache # <<>> THEN cache[1] ELSE file
         IN  [value |-> value, raised |-> FALSE, cache |-> <<value>>,
              messages |-> IF value = NoSchemaText
                           THEN <<El("error", "Error: schema.txt not found. Please create it in the root directory.", "", 0)>>
                           ELSE <<>>]

\* lines 334-352 of the branch `elif action == "4. Describe Table Columns"`,
\* once get_describer() has returned d: get_schema_text(), the test of line
\* 337, filter_schema (whose outcome is kept in fs_out), up to the point where
\* describe_with_cortex sends its statement and the run waits for the answer.
\* before: the elements rendered so far; made: the connect calls made so far.
DescribeAfterDescriber(d, before, made) ==
    \E blob \in SchemaFiles :
        LET t == get_schema_text(schema_cache, blob)
        IN  \E sm \in [Range(schema_chunks(t.value)) -> 0..MaxSim] :
            \E tb \in ArgSortTies(schema_chunks(t.value), sm) :
            LET head == before \o d.messages \o t.messages
                found == filter_schema(TableChars(selected_table), t.value, sm, tb)
                fcall == Call("filter_schema", selected_table, 0, found.kind = "return",
                              t.value)
                setup == <<El("error", "An unexpected error occurred during description generation", "", 0),
                           El("error", "Please ensure the files are set up correctly", "", 0)>>
            IN  /\ describer_cache' = d.cache
                /\ schema_cache' = t.cache
                /\ connects' = made + d.connects
                /\ IF t.raised
                   THEN \* the exception of get_schema_text reaches line 350
                        /\ screen' = before \o d.messages \o setup
                        /\ log' = log
                        /\ fs_out' = fs_out
                        /\ pc' = "idle"
                   ELSE IF d.value = "None" \/ t.value = NoSchemaText \/ t.value = <<>>
                   THEN /\ screen' = Append(head,
                               El("error", "Could not proceed. Check for initialization errors above.", "", 0))
                        /\ log' = log
                        /\ fs_out' = fs_out
                        /\ pc' = "idle"
                   ELSE IF found.kind # "return"
                   THEN /\ screen' = head \o setup
                        /\ log' = Append(log, fcall)
                        /\ fs_out' = found
                        /\ pc' = "idle"
                   ELSE /\ screen' = head
                        /\ log' = Append(log, fcall)
                        /\ fs_out' = found
                        /\ pc' = "describe_cortex"

\* lines 197-233, 286, 328: the top of the script down to the branch taken.
\* In the branch of line 328 the run waits for the describer's connect call
\* when get_describer() has nothing cached and the embedding model loads;
\* otherwise get_describer() returns at once and the branch goes on.
RunInit ==
    /\ pc = "init"
    /\ \E ok \in BOOLEAN :
        LET c == init_connection(conn_cache, connects, ok)
            top == screen \o c.messages
            heads == <<El("header", "Table", "", 0), El("markdown", action, "", 0)>>
            subheader == <<El("subheader", "AI-Generated Column Descriptions", "", 0)>>
        IN  /\ conn_cache' = c.cache
            /\ IF c.conn = 0
               THEN \* st.stop()
                    /\ screen' = top
                    /\ pc' = "idle"
                    /\ log' = log
                    /\ connects' = c.connects
                    /\ UNCHANGED <<describer_cache, schema_cache, fs_out>>
               ELSE IF action = "1. Data Quality Analysis"
               THEN /\ screen' = top \o heads \o <<El("subheader", "Data Quality Summary", "", 0)>>
                    /\ pc' = "dq_total"
                    /\ log' = log
                    /\ connects' = c.connects
                    /\ UNCHANGED <<describer_cache, schema_cache, fs_out>>
               ELSE IF action = "2. View Cleaned Data"
               THEN /\ screen' = top \o heads
                                   \o <<El("subheader", "Original vs. Cleaned Data Summary", "", 0)>>
                    /\ pc' = "cv_total"
                    /\ log' = log
                    /\ connects' = c.connects
                    /\ UNCHANGED <<describer_cache, schema_cache, fs_out>>
               ELSE IF action = "4. Describe Table Columns"
               THEN \E loads \in BOOLEAN :
                      IF describer_cache = "unset" /\ loads
                      THEN /\ screen' = top \o heads \o subheader
                           /\ pc' = "describe_connect"
                           /\ log' = log
                           /\ connects' = c.connects
                           /\ UNCHANGED <<describer_cache, schema_cache, fs_out>>
                      ELSE DescribeAfterDescriber(
                               get_describer(describer_cache, "model_fails"),
                               top \o heads \o subheader, c.connects)
               ELSE \* no branch of the if/elif chain matches
                    /\ screen' = top \o heads
                    /\ pc' = "idle"
                    /\ log' = log
                    /\ connects' = c.connects
                    /\ UNCHANGED <<describer_cache, schema_cache, fs_out>>
    /\ UNCHANGED <<qcache, colcache, stored, runs, user, selected_table, action>>
    /\ UNCHANGED dmf_vars
    /\ UNCHANGED <<table_name, schema_text, sims, tie, fs_pc>>
    /\ UNCHANGED cvars

\* The two waits of the branch of line 328.  The radio (lines 218-225) never
\* returns the label that line 328 tests for, so no run reaches them; they are
\* no disjuncts of Next.
\*
\* col_desc.py line 52, called from get_describer() at app.py line 334: the
\* describer's connect call returns or raises, and the branch goes on
DescribeConnect ==
    /\ pc = "describe_connect"
    /\ \E ok \in BOOLEAN :
          DescribeAfterDescriber(
              get_describer(describer_cache, IF ok THEN "built" ELSE "connect_fails"),
              screen, connects)
    /\ UNCHANGED <<conn_cache, qcache, colcache, stored, runs, user, selected_table, action>>
    /\ UNCHANGED dmf_vars
    /\ UNCHANGED <<table_name, schema_text, sims, tie, fs_pc>>
    /\ UNCHANGED cvars

\* line 343 (col_desc.py lines 159-178) and line 346: the warehouse answers
\* the Cortex statement, and the text describe_with_cortex returns is rendered
DescribeCortex ==
    /\ pc = "describe_cortex"
    /\ \E reply \in CortexReplies :
          /\ screen' = Append(screen, El("markdown", describe_with_cortex(TRUE, reply),
                                         "describe_with_cortex", 0))
          /\ log' = Append(log, Call("describe_with_cortex", "snowflake-llama-3.3-70b", 0,
                                     reply.kind # "raise", fs_out.value))
    /\ pc' = "idle"
    /\ UNCHANGED <<conn_cache, connects, qcache, colcache, stored, runs, user,
                   selected_table, action>>
    /\ UNCHANGED describe_vars
    /\ UNCHANGED dmf_vars
    /\ UNCHANGED fvars
    /\ UNCHANGED cvars


\* the statements of the two branches
TotalQuery(t) == "SELECT COUNT(*) FROM TFO.TFO_SCHEMA." \o t \o ";"
duplicate_view(t) == t \o "_duplicate_records"
view_name(t) == t \o "_clean_view"
CountQuery(v) == "SELECT COUNT(*) FROM " \o v \o ";"
DataQuery(v) == "SELECT * FROM " \o v \o " LIMIT 50;"

\* df.iloc[0, 0] if not df.empty else 0
FirstCellOrZero(df) == IF IsEmptyDF(df) THEN 0 ELSE df.first

\* the order in which the entries of the two caches were stored, after a call
\* of the cached function fn with key `key`: a new entry is the youngest
StoredAfter(fn, key, before, after) ==
    IF key \notin DOMAIN before /\ key \in DOMAIN after
    THEN Append(stored, [fn |-> fn, key |-> key])
    ELSE stored

\* A step that calls run_query(conn, query) inside the branch's try block:
\* on an exception the except clause renders the error and the run is over;
\* otherwise `shown` is rendered and the run goes on at `next`.
QueryStep(query, replies, Shown(_), Next(_)) ==
    \E reply \in replies :
        LET r == run_query(qcache, query, reply)
        IN  /\ qcache' = r.cache
            /\ stored' = StoredAfter("run_query", query, qcache, r.cache)
            /\ log' = Logged(r, query, reply)
            /\ IF r.raised
               THEN /\ screen' = Append(screen, BranchError(query))
                    /\ pc' = "idle"
               ELSE /\ screen' = screen \o Shown(r.df)
                    /\ pc' = Next(r.df)

\* lines 241-246: the total count of the table
DqTotal ==
    /\ pc = "dq_total"
    /\ LET q == TotalQuery(selected_table)
           Shown(df) == <<El("metric", "Total Records", q, FirstCellOrZero(df))>>
           Next(df) == "dq_dupes"
       IN  QueryStep(q, CountReplies, Shown, Next)
    /\ UNCHANGED <<conn_cache, connects, colcache, runs, user, selected_table, action>>
    /\ UNCHANGED describe_vars
    /\ UNCHANGED dmf_vars
    /\ UNCHANGED fvars
    /\ UNCHANGED cvars

\* lines 249-261 and 269-279: the count of the duplicate view; with no
\* duplicates the branch goes straight on to the DMF controls
DqDupCount ==
    /\ pc = "dq_dupes"
    /\ LET q == CountQuery(duplicate_view(selected_table))
           Shown(df) ==
               <<El("metric", "Total Duplicate Records Found", q, FirstCellOrZero(df))>>
                 \o (IF FirstCellOrZero(df) > 0
                     THEN <<El("info", "Showing the top 50 duplicate records", "", 0)>>
                     ELSE <<El("success", "No duplicate records were found in this table.", "", 0)>>)
           Next(df) == IF FirstCellOrZero(df) > 0 THEN "dq_rows" ELSE "dmf"
       IN  QueryStep(q, CountReplies, Shown, Next)
    /\ selected_table_dmf' = IF pc' = "dmf" THEN "TFO.TFO_SCHEMA." \o selected_table
                             ELSE selected_table_dmf
    /\ UNCHANGED <<conn_cache, connects, colcache, runs, user, selected_table, action>>
    /\ UNCHANGED describe_vars
    /\ UNCHANGED <<selected_function_name, selected_column, final_function_sql>>
    /\ UNCHANGED fvars
    /\ UNCHANGED cvars

\* lines 262-279: the first 50 duplicate rows
DqDupRows ==
    /\ pc = "dq_rows"
    /\ LET q == DataQuery(duplicate_view(selected_table))
           Shown(df) ==
               IF ~IsEmptyDF(df) THEN <<El("dataframe", "duplicates_df", q, df.nrows)>>
               ELSE <<El("warning", "Could not retrieve the list of duplicate records.", "", 0)>>
           Next(df) == "dmf"
       IN  QueryStep(q, RowsReplies, Shown, Next)
    /\ selected_table_dmf' = IF pc' = "dmf" THEN "TFO.TFO_SCHEMA." \o selected_table
                             ELSE selected_table_dmf
    /\ UNCHANGED <<conn_cache, connects, colcache, runs, user, selected_table, action>>
    /\ UNCHANGED describe_vars
    /\ UNCHANGED <<selected_function_name, selected_column, final_function_sql>>
    /\ UNCHANGED fvars
    /\ UNCHANGED cvars

\* lines 293-298: the total count of the table, in the clean-view branch
CvTotal ==
    /\ pc = "cv_total"
    /\ LET q == TotalQuery(selected_table)
           Shown(df) == <<El("metric", "Total Records in Original", q, FirstCellOrZero(df))>>
           Next(df) == "cv_count"
       IN  QueryStep(q, CountReplies, Shown, Next)
    /\ UNCHANGED <<conn_cache, connects, colcache, runs, user, selected_table, action>>
    /\ UNCHANGED describe_vars
    /\ UNCHANGED dmf_vars
    /\ UNCHANGED fvars
    /\ UNCHANGED cvars

\* lines 301-312: the count of the clean view
CvCount ==
    /\ pc = "cv_count"
    /\ LET q == CountQuery(view_name(selected_table))
           Shown(df) ==
               <<El("metric", "Filtered Records in Clean View", q, FirstCellOrZero(df)),
                 El("info", "Showing the top 50 rows from the clean view", "", 0)>>
           Next(df) == "cv_rows"
       IN  QueryStep(q, CountReplies, Shown, Next)
    /\ UNCHANGED <<conn_cache, connects, colcache, runs, user, selected_table, action>>
    /\ UNCHANGED describe_vars
    /\ UNCHANGED dmf_vars
    /\ UNCHANGED fvars
    /\ UNCHANGED cvars

\* lines 313-321: the first 50 rows of the clean view
CvRows ==
    /\ pc = "cv_rows"
    /\ LET q == DataQuery(view_name(selected_table))
           Shown(df) ==
               IF ~IsEmptyDF(df) THEN <<El("dataframe", "clean_data_df", q, df.nrows)>>
               ELSE <<El("warning", "The clean view is empty or inaccessible.", "", 0)>>
           Next(df) == "dmf"
       IN  QueryStep(q, RowsReplies, Shown, Next)
    /\ selected_table_dmf' = IF pc' = "dmf" THEN view_name(selected_table)
                             ELSE selected_table_dmf
    /\ UNCHANGED <<conn_cache, connects, colcache, runs, user, selected_table, action>>
    /\ UNCHANGED describe_vars
    /\ UNCHANGED <<selected_function_name, selected_column, final_function_sql>>
    /\ UNCHANGED fvars
    /\ UNCHANGED cvars


\* the statement of the Run button, line 176
DmfQuery(function_sql, t) ==
    "SELECT " \o function_sql \o " AS \"Result\" FROM " \o t

\* a variant of can_proceed that lets the Run button appear in every case
CanProceedAlways(requires, column) == requires \/ ~requires

\* can_proceed, line 166 (a column name is truthy unless it is empty)
can_proceed(requires, column) == (requires /\ column # "") \/ ~requires

\* final_function_sql, lines 170-173
FinalFunctionSql(template, column) ==
    IF requires_column(template) THEN FormatColumn(template, column)
    ELSE TemplateText(template)

\* show_dmf_controls, lines 155-175, once the column list g is there: the
\* user's choice of a column, the header and the Run button, rendered after
\* `before`.  The run goes on at "dmf_run" when the button was pressed.
DmfAfterColumns(fn, g, before) ==
    LET function_template == get_dmf_functions[fn]
        requires == requires_column(function_template)
    IN  IF g.raised
        THEN \* the exception leaves show_dmf_controls: the branch's except clause
             /\ screen' = Append(before, BranchError(DescribeStmt(selected_table_dmf)))
             /\ selected_column' = ""
             /\ final_function_sql' = ""
             /\ pc' = "idle"
        ELSE \E pressed \in BOOLEAN :
             \E column \in (IF requires /\ g.columns # <<>>
                            THEN Range(g.columns) ELSE {""}) :
                LET note == IF ~requires
                            THEN <<El("info", "This function does not require a column selection.", "", 0)>>
                            ELSE IF g.columns = <<>>
                            THEN <<El("warning", "Could not retrieve columns for this table.", "", 0)>>
                            ELSE <<>>
                    header == <<El("header", "DMF Functions", fn, 0)>>
                    shown == before \o g.messages \o note \o header
                IN  /\ selected_column' = column
                    /\ IF ~can_proceed(requires, column)
                       THEN /\ screen' = Append(shown,
                                   El("warning", "Please select a column in the sidebar to run this function.", "", 0))
                            /\ final_function_sql' = ""
                            /\ pc' = "idle"
                       ELSE /\ screen' = shown
                            /\ final_function_sql' = FinalFunctionSql(function_template, column)
                            /\ pc' = IF pressed THEN "dmf_run" ELSE "idle"

\* show_dmf_controls, lines 131-154: the sidebar and the user's choice of a
\* function.  For a function with a column whose table has no cached column
\* list, get_columns_for_table sends DESCRIBE TABLE and the run waits for the
\* answer; otherwise the function goes on to its end in the same step.
DmfControls ==
    /\ pc = "dmf"
    /\ \E fn \in user.functions :
        LET requires == requires_column(get_dmf_functions[fn])
            sidebar == <<El("info", "Select a DMF function to analyze data quality.", "", 0)>>
            cached == [raised |-> FALSE, issued |-> FALSE, cache |-> colcache,
                       columns |-> IF requires THEN colcache[selected_table_dmf].value
                                   ELSE <<>>,
                       messages |-> IF requires THEN colcache[selected_table_dmf].messages
                                    ELSE <<>>]
        IN  /\ selected_function_name' = fn
            /\ IF requires /\ selected_table_dmf \notin DOMAIN colcache
               THEN /\ screen' = screen \o sidebar
                    /\ selected_column' = ""
                    /\ final_function_sql' = final_function_sql
                    /\ pc' = "dmf_columns"
               ELSE DmfAfterColumns(fn, cached, screen \o sidebar)
    /\ UNCHANGED <<conn_cache, connects, qcache, colcache, stored, runs, user,
                   selected_table, action, selected_table_dmf, log>>
    /\ UNCHANGED describe_vars
    /\ UNCHANGED fvars
    /\ UNCHANGED cvars

\* show_dmf_controls, line 154 (get_columns_for_table, lines 98-106) to line
\* 175: the warehouse answers DESCRIBE TABLE, and the function goes on
DmfColumns ==
    /\ pc = "dmf_columns"
    /\ \E reply \in DescribeReplies :
        LET g == get_columns_for_table(colcache, selected_table_dmf, reply)
        IN  /\ colcache' = g.cache
            /\ stored' = StoredAfter("get_columns_for_table", selected_table_dmf,
                                     colcache, g.cache)
            /\ log' = IF g.issued
                      THEN Append(log, Call("sql", DescribeStmt(selected_table_dmf),
                                            conn_cache, reply.kind = "columns", <<>>))
                      ELSE log
            /\ DmfAfterColumns(selected_function_name, g, screen)
    /\ UNCHANGED <<conn_cache, connects, qcache, runs, user, selected_table, action,
                   selected_table_dmf, selected_function_name>>
    /\ UNCHANGED describe_vars
    /\ UNCHANGED fvars
    /\ UNCHANGED cvars

\* lines 175-191: the Run button was pressed
DmfRun ==
    /\ pc = "dmf_run"
    /\ LET q == DmfQuery(final_function_sql, selected_table_dmf)
           Shown(df) ==
               <<El("success", "Query executed successfully!", "", 0)>>
                 \o (IF df.nrows = 1 /\ df.ncols = 1
                     THEN <<El("metric", selected_function_name, q, df.first)>>
                     ELSE <<El("dataframe", "result_df", q, df.nrows)>>)
           Next(df) == "idle"
       IN  QueryStep(q, DmfReplies, Shown, Next)
    /\ UNCHANGED <<conn_cache, connects, colcache, runs, user, selected_table, action>>
    /\ UNCHANGED describe_vars
    /\ UNCHANGED dmf_vars
    /\ UNCHANGED fvars
    /\ UNCHANGED cvars

\* the cache without the entry of key k
Without(cache, k) ==
    IF DOMAIN cache \subseteq {k} THEN <<>>
    ELSE [x \in DOMAIN cache \ {k} |-> cache[x]]

\* ttl=600 of st.cache_data (lines 68 and 95): every entry of run_query and of
\* get_columns_for_table lapses on its own, 600 seconds after it was stored, at
\* whatever point of a run or between two runs that falls; so the oldest entry
\* is the next to lapse.  (The st.cache_resource of init_connection and of
\* get_describer and the st.cache_data of get_schema_text have no ttl.)
TtlExpire ==
    /\ stored # <<>>
    /\ stored' = Tail(stored)
    /\ \/ /\ Head(stored).fn = "run_query"
          /\ qcache' = Without(qcache, Head(stored).key)
          /\ colcache' = colcache
       \/ /\ Head(stored).fn = "get_columns_for_table"
          /\ colcache' = Without(colcache, Head(stored).key)
          /\ qcache' = qcache
    /\ UNCHANGED <<conn_cache, connects, runs, user>>
    /\ UNCHANGED describe_vars
    /\ UNCHANGED run_vars
    /\ UNCHANGED dmf_vars
    /\ UNCHANGED fvars
    /\ UNCHANGED cvars

\* the filter_schema variables are not used by the session; they are pinned
AppInit ==
    /\ user \in Users
    /\ conn_cache = -1
    /\ connects = 0
    /\ qcache = <<>>
    /\ colcache = <<>>
    /\ stored = <<>>
    /\ describer_cache = "unset"
    /\ schema_cache = <<>>
    /\ runs = 0
    /\ pc = "idle"
    /\ selected_table = ""
    /\ action = ""
    /\ screen = <<>>
    /\ log = <<>>
    /\ selected_table_dmf = ""
    /\ selected_function_name = ""
    /\ selected_column = ""
    /\ final_function_sql = ""
    /\ table_name = <<>>
    /\ schema_text = <<>>
    /\ sims = <<>>
    /\ tie = <<>>
    /\ fs_pc = "ready"
    /\ fs_out = NoOutcome
    /\ ScriptsOff

Init == AppInit

Next ==
    \/ Interact
    \/ RunInit
    \/ DqTotal
    \/ DqDupCount
    \/ DqDupRows
    \/ CvTotal
    \/ CvCount
    \/ CvRows
    \/ DmfControls
    \/ DmfColumns
    \/ DmfRun
    \/ TtlExpire

Spec == Init /\ [][Next]_vars


(***************************************************************************)
(* Properties of the session, checked under Spec.                          *)
(***************************************************************************)
\* s is an initial segment of t
IsPrefix(s, t) == Len(s) <= Len(t) /\ SubSeq(t, 1, Len(s)) = s

\* the statements of the current run that the warehouse refused
FailedStmts == {log[j].stmt : j \in {k \in 1..Len(log) : log[k].op = "sql" /\ ~log[k].ok}}

\* the statements of the current run
IssuedStmts == {log[j].stmt : j \in {k \in 1..Len(log) : log[k].op = "sql"}}

\* C2 as stated: a run for the action the sidebar offers as "3. Describe Table
\* Columns" calls filter_schema with the selected table and the schema
\* document and then describe_with_cortex with a block of that document, or
\* displays an error.
C2_DescribeCallsRetrieverThenCortex ==
    (pc = "idle" /\ action = "3. Describe Table Columns") =>
        \/ \E k \in 1..Len(screen) : screen[k].kind = "error"
        \/ \E i, j \in 1..Len(log) :
              /\ i < j
              /\ log[i].op = "filter_schema"
              /\ log[i].stmt = selected_table
              /\ log[j].op = "describe_with_cortex"
              /\ log[j].text \in Range(schema_chunks(log[i].text))

\* C4 as stated: a failure is terminal for the run that met it only.  Whenever
\* a run shows the failure of a statement, or works with a column list that is
\* the outcome of a failed DESCRIBE TABLE, the statement was sent, and failed,
\* in that same run: no run gets a failure handed down from an earlier one.
C4_FailureOnlyFromOwnCalls ==
    /\ \A k \in 1..Len(screen) :
          (screen[k].kind = "error" /\ screen[k].src # "") => screen[k].src \in FailedStmts
    /\ (/\ selected_function_name # ""
        /\ requires_column(get_dmf_functions[selected_function_name])
        /\ selected_table_dmf \in DOMAIN colcache
        /\ colcache[selected_table_dmf].messages # <<>>)
          => DescribeStmt(selected_table_dmf) \in FailedStmts

\* C5: when a statement fails during a run (in particular one against a missing
\* <table>_duplicate_records or <table>_clean_view view), an error naming it is
\* rendered and no metric or table is rendered for it; and whatever a run has
\* rendered stays rendered, unchanged, for the rest of the run.
C5_ErrorShownNothingOverwritten ==
    /\ [](\A q \in FailedStmts :
            /\ \E k \in 1..Len(screen) : screen[k].kind = "error" /\ screen[k].src = q
            /\ ~\E k \in 1..Len(screen) :
                  screen[k].kind \in {"metric", "dataframe"} /\ screen[k].src = q)
    /\ [][pc # "idle" => IsPrefix(screen, screen')]_vars

\* C5 witness: the count of the duplicate view failed after the total count had
\* been rendered; the metric is still there, followed by the error.
C5_Witness ==
    /\ CountQuery(duplicate_view(selected_table)) \in FailedStmts
    /\ \E k \in 1..Len(screen) :
          /\ screen[k].kind = "metric"
          /\ screen[k].src = TotalQuery(selected_table)
          /\ screen[k].value = 2
          /\ k < Len(screen)
    /\ screen[Len(screen)].kind = "error"

\* C6: in a session the connection is made at most once and every statement
\* goes over it; once the attempt has failed no statement is sent and no new
\* attempt is made.
C6_OneConnectionNoReconnect ==
    /\ [](/\ connects <= 1
          /\ \A j \in 1..Len(log) : log[j].op = "sql" => log[j].conn = 1
          /\ conn_cache = 0 => log = <<>>)
    /\ [][conn_cache = 0 => (conn_cache' = 0 /\ connects' = connects /\ log' = <<>>)]_vars

\* C6 witness: the second run of a session sends a statement over the
\* connection the first run made.
C6_Witness ==
    /\ runs = 2
    /\ connects = 1
    /\ conn_cache = 1
    /\ \E j \in 1..Len(log) : log[j].op = "sql" /\ log[j].conn = 1


(***************************************************************************)
(* Properties of the DMF catalog and of the substitution, checked under    *)
(* Spec on the function and the column the user selects.                   *)
(***************************************************************************)
\* the number of substitution points of a template
Placeholders(template) ==
    Cardinality({i \in 1..Len(template) : template[i] = Placeholder})

\* C9 as stated: the template of the selected function contains exactly one
\* substitution point for a column identifier, or none.
C9_AtMostOneSubstitutionPoint ==
    selected_function_name # "" =>
        Placeholders(get_dmf_functions[selected_function_name]) <= 1

\* C9 as amended: every template contains no substitution point or
\* substitution points for the one column identifier `column`: exactly one,
\* except the template of DUPLICATE_COUNT, which contains two; ROW_COUNT is the
\* only template with none.
C9_OneColumnIdentifier ==
    /\ \A name \in DOMAIN get_dmf_functions :
          LET n == Placeholders(get_dmf_functions[name])
          IN  /\ name = "ROW_COUNT" => n = 0
              /\ name = "DUPLICATE_COUNT" => n = 2
              /\ name \notin {"ROW_COUNT", "DUPLICATE_COUNT"} => n = 1
    /\ selected_function_name # "" =>
          (requires_column(get_dmf_functions[selected_function_name])
              <=> Placeholders(get_dmf_functions[selected_function_name]) > 0)

\* C9 witness: DUPLICATE_COUNT was selected with column EMAIL, and both
\* substitution points were filled.
C9_Witness ==
    /\ selected_function_name = "DUPLICATE_COUNT"
    /\ selected_column = "EMAIL"
    /\ final_function_sql = "COUNT(\"EMAIL\") - COUNT(DISTINCT \"EMAIL\")"

\* the fragments the controller builds for column EMAIL, written out
ExpectedForEmail ==
    [name \in Range(DmfNames) |->
        CASE name = "ROW_COUNT" -> "COUNT(*)"
          [] name = "NULL_COUNT" -> "COUNT_IF(\"EMAIL\" IS NULL)"
          [] name = "NOT_NULL_COUNT" -> "COUNT_IF(\"EMAIL\" IS NOT NULL)"
          [] name = "UNIQUE_COUNT" -> "COUNT(DISTINCT \"EMAIL\")"
          [] name = "DUPLICATE_COUNT" -> "COUNT(\"EMAIL\") - COUNT(DISTINCT \"EMAIL\")"
          [] name = "AVERAGE" -> "AVG(\"EMAIL\")"
          [] name = "SUM" -> "SUM(\"EMAIL\")"
          [] name = "MIN" -> "MIN(\"EMAIL\")"
          [] name = "MAX" -> "MAX(\"EMAIL\")"
          [] name = "STDDEV" -> "STDDEV(\"EMAIL\")"
          [] name = "MIN_LENGTH" -> "MIN(LENGTH(\"EMAIL\"))"
          [] name = "MAX_LENGTH" -> "MAX(LENGTH(\"EMAIL\"))"
          [] name = "AVG_LENGTH" -> "AVG(LENGTH(\"EMAIL\"))"]

RECURSIVE ReplacePlaceholder(_, _)
\* the template read left to right, each placeholder replaced by `by`
ReplacePlaceholder(template, by) ==
    IF template = <<>> THEN ""
    ELSE (IF Head(template) = Placeholder THEN by ELSE Head(template))
            \o ReplacePlaceholder(Tail(template), by)

\* C10: for a template that requires a column and the column c the user
\* selected, the fragment built is the template with its placeholder replaced
\* by c in double quotes; for NULL_COUNT and EMAIL it is exactly
\* COUNT_IF("EMAIL" IS NULL).
C10_FragmentIsTemplateWithQuotedColumn ==
    (/\ selected_function_name # ""
     /\ requires_column(get_dmf_functions[selected_function_name])
     /\ selected_column # "") =>
        /\ final_function_sql =
              ReplacePlaceholder(get_dmf_functions[selected_function_name],
                                 "\"" \o selected_column \o "\"")
        /\ selected_column = "EMAIL" =>
              final_function_sql = ExpectedForEmail[selected_function_name]
        /\ (selected_function_name = "NULL_COUNT" /\ selected_column = "EMAIL") =>
              final_function_sql = "COUNT_IF(\"EMAIL\" IS NULL)"

\* C10 witness: NULL_COUNT with column EMAIL gave COUNT_IF("EMAIL" IS NULL).
C10_Witness ==
    /\ selected_function_name = "NULL_COUNT"
    /\ selected_column = "EMAIL"
    /\ final_function_sql = "COUNT_IF(\"EMAIL\" IS NULL)"


(***************************************************************************)
(* The scripts col_desc.py and cortex_complete.py run from the command     *)
(* line.  A step ends where the script next waits for the warehouse or     *)
(* the file system.                                                        *)
(***************************************************************************)
\* how snowflake.connector.connect fails
ConnectFaults ==
    {[cause |-> "bad_credentials", exc |-> "DatabaseError"],
     [cause |-> "network", exc |-> "OperationalError"]}

\* the text of the TypeError that None[0] raises
NotSubscriptable == "'NoneType' object is not subscriptable"

\* get_cortex_completion(prompt, model), cortex_complete.py lines 53-72, once
\* connected: what it returns when the statement meets `reply`
get_cortex_completion(reply) ==
    CASE reply.kind = "row" ->
            IF reply.text # "" THEN reply.text ELSE NoResponseMessage
      [] reply.kind = "norow" -> CompletionFailedMessage(NotSubscriptable)
      [] reply.kind = "raise" /\ reply.fault.exc = "ProgrammingError" ->
            PermissionMessage(reply.fault.cause)
      [] OTHER -> CompletionFailedMessage(reply.fault.cause)

\* the schema files the describer script is run on
ScriptDocs ==
    {<<>>, <<" ", "\n">>}
        \cup UNION {{JoinBlocks(bs) :
                        bs \in [1..n -> {TableChars("ASSETMASTER"), TableChars("PORTFOLIO")}]}
                    : n \in 1..2}

\* col_desc.py lines 187-201 and cortex_complete.py lines 81-136: the script
\* has read its schema file
ScriptInit ==
    /\ AppStart
    /\ prog \in {"col_desc", "cortex_complete"}
    /\ cx_pc = "start"
    /\ cx_conn = "none"
    /\ cx_reply = NoReply
    /\ cx_out = NoResult
    /\ cx_file = <<>>
    /\ fs_pc = "ready"
    /\ fs_out = NoOutcome
    /\ IF prog = "col_desc"
       THEN /\ table_name = TableChars("ASSETMASTER")
            /\ schema_text \in ScriptDocs
            /\ sims \in [Range(schema_chunks(schema_text)) -> 0..MaxSim]
            /\ tie \in ArgSortTies(schema_chunks(schema_text), sims)
       ELSE /\ table_name = <<>>
            /\ schema_text = <<>>
            /\ sims = <<>>
            /\ tie = <<>>

\* col_desc.py line 197, SnowflakeSchemaDescriber() (lines 36-64); when connect
\* raises, __init__ re-raises, describer stays None, and lines 224-229 log the
\* error and close nothing
DescriberConstruct ==
    /\ prog = "col_desc"
    /\ cx_pc = "start"
    /\ \E ok \in BOOLEAN :
          IF ok
          THEN /\ cx_conn' = "open"
               /\ cx_pc' = "constructed"
               /\ cx_out' = cx_out
          ELSE /\ cx_conn' = "none"
               /\ cx_pc' = "done"
               /\ cx_out' = [kind |-> "logged", text |-> "An error occurred"]
    /\ UNCHANGED <<prog, cx_reply, cx_file>>
    /\ UNCHANGED fvars
    /\ UNCHANGED avars

\* col_desc.py line 204; a ValueError goes to lines 224-229: the error is
\* logged and the connection closed
DescriberFilter ==
    /\ prog = "col_desc"
    /\ cx_pc = "constructed"
    /\ LET found == filter_schema(table_name, schema_text, sims, tie)
       IN  /\ fs_out' = found
           /\ fs_pc' = "done"
           /\ IF found.kind = "return"
              THEN /\ cx_pc' = "filtered"
                   /\ UNCHANGED <<cx_conn, cx_out>>
              ELSE /\ cx_pc' = "done"
                   /\ cx_conn' = "closed"
                   /\ cx_out' = [kind |-> "logged", text |-> "An error occurred"]
    /\ UNCHANGED <<prog, cx_reply, cx_file>>
    /\ UNCHANGED <<table_name, schema_text, sims, tie>>
    /\ UNCHANGED avars

\* col_desc.py line 207, describe_with_cortex(filtered_schema, model)
DescriberDescribe ==
    /\ prog = "col_desc"
    /\ cx_pc = "filtered"
    /\ \E reply \in CortexReplies :
          /\ cx_reply' = reply
          /\ cx_out' = [kind |-> "returned",
                        text |-> describe_with_cortex(cx_conn = "open", reply)]
    /\ cx_pc' = "described"
    /\ UNCHANGED <<prog, cx_conn, cx_file>>
    /\ UNCHANGED fvars
    /\ UNCHANGED avars

\* col_desc.py lines 215-229: the description is written to table_desc.txt
\* (an IOError is logged), then close_connection()
DescriberWrite ==
    /\ prog = "col_desc"
    /\ cx_pc = "described"
    /\ \E written \in BOOLEAN :
          cx_file' = IF written THEN <<cx_out.text>> ELSE <<>>
    /\ cx_conn' = "closed"
    /\ cx_pc' = "done"
    /\ UNCHANGED <<prog, cx_reply, cx_out>>
    /\ UNCHANGED fvars
    /\ UNCHANGED avars

\* cortex_complete.py lines 21-33 and 67-78: connect; when it raises, `conn`
\* was never bound (line 20 is a comment), so `if conn:` at line 75 raises
\* UnboundLocalError, which replaces the message returned at line 72 and,
\* uncaught at line 139, ends the script
CompletionConnect ==
    /\ prog = "cortex_complete"
    /\ cx_pc = "start"
    /\ \E fault \in ConnectFaults \cup {NoFault} :
          IF fault = NoFault
          THEN /\ cx_conn' = "open"
               /\ cx_pc' = "connected"
               /\ UNCHANGED <<cx_reply, cx_out>>
          ELSE /\ cx_conn' = "none"
               /\ cx_pc' = "done"
               /\ cx_reply' = [kind |-> "noconnect", fault |-> fault, text |-> ""]
               /\ cx_out' = [kind |-> "raised", text |-> "UnboundLocalError"]
    /\ UNCHANGED <<prog, cx_file>>
    /\ UNCHANGED fvars
    /\ UNCHANGED avars

\* how conn.cursor() fails
CursorFaults == {[cause |-> "connection_closed", exc |-> "DatabaseError"]}

\* cortex_complete.py lines 53-78: the statement is executed, the function
\* returns, the cursor and the connection are closed.  When conn.cursor()
\* raises at line 53, `cursor` was never bound: cursor.close() at line 76
\* raises UnboundLocalError before conn.close() is reached, and the function
\* ends by raising with its connection open.
CompletionExecute ==
    /\ prog = "cortex_complete"
    /\ cx_pc = "connected"
    /\ \/ \E reply \in CortexReplies :
             /\ cx_reply' = reply
             /\ cx_out' = [kind |-> "returned", text |-> get_cortex_completion(reply)]
             /\ cx_conn' = "closed"
             /\ cx_pc' = "returned"
       \/ \E fault \in CursorFaults :
             /\ cx_reply' = [kind |-> "nocursor", fault |-> fault, text |-> ""]
             /\ cx_out' = [kind |-> "raised", text |-> "UnboundLocalError"]
             /\ cx_conn' = "open"
             /\ cx_pc' = "done"
    /\ UNCHANGED <<prog, cx_file>>
    /\ UNCHANGED fvars
    /\ UNCHANGED avars

\* cortex_complete.py lines 153-158: the response is written to views.json
\* (an IOError is printed)
CompletionWrite ==
    /\ prog = "cortex_complete"
    /\ cx_pc = "returned"
    /\ \E written \in BOOLEAN :
          cx_file' = IF written THEN <<cx_out.text>> ELSE <<>>
    /\ cx_pc' = "done"
    /\ UNCHANGED <<prog, cx_conn, cx_reply, cx_out>>
    /\ UNCHANGED fvars
    /\ UNCHANGED avars

ScriptNext ==
    \/ DescriberConstruct
    \/ DescriberFilter
    \/ DescriberDescribe
    \/ DescriberWrite
    \/ CompletionConnect
    \/ CompletionExecute
    \/ CompletionWrite

SpecScripts == ScriptInit /\ [][ScriptNext]_vars

\* the texts that tell the operator to grant usage rights
PermissionOutcomes == {PermissionMessage(f.cause) : f \in CortexFaults}

\* C7: when the completion statement fails, the function reports the
\* permission outcome if and only if the failure was caused by the caller
\* lacking permission to invoke the model; every other failure gets a
\* different (execution) outcome.
C7_PermissionOutcomeIffPermissionFailure ==
    (cx_out.kind = "returned" /\ cx_reply.kind = "raise") =>
        (cx_out.text \in PermissionOutcomes <=> cx_reply.fault.cause = "permission")


(***************************************************************************)
(* The DMF statements, checked under Spec.                                 *)
(***************************************************************************)
\* the tables show_dmf_controls is called with
DmfTables ==
    {"TFO.TFO_SCHEMA." \o t : t \in Range(TABLE_LIST)}
        \cup {t \o "_clean_view" : t \in Range(TABLE_LIST)}

\* the statements of the two branches and of the column listing
BranchStmts ==
    UNION {{"SELECT COUNT(*) FROM TFO.TFO_SCHEMA." \o t \o ";",
            "SELECT COUNT(*) FROM " \o t \o "_duplicate_records;",
            "SELECT * FROM " \o t \o "_duplicate_records LIMIT 50;",
            "SELECT COUNT(*) FROM " \o t \o "_clean_view;",
            "SELECT * FROM " \o t \o "_clean_view LIMIT 50;"} : t \in Range(TABLE_LIST)}
        \cup {"DESCRIBE TABLE " \o t : t \in DmfTables}

\* SELECT <expr> AS "Result" FROM <table> for function fn, column c, table t:
\* <expr> is the template of fn with c, in double quotes, at every placeholder
ShapedDmfStmt(fn, c, t) ==
    "SELECT " \o ReplacePlaceholder(get_dmf_functions[fn], "\"" \o c \o "\"")
        \o " AS \"Result\" FROM " \o t

\* the same shape around a template whose placeholder was left as it is
UnsubstitutedDmfStmt(fn, t) ==
    "SELECT " \o ReplacePlaceholder(get_dmf_functions[fn], Placeholder)
        \o " AS \"Result\" FROM " \o t

\* C11: every statement sent that is not one of the branch's own queries is
\* SELECT <expr> AS "Result" FROM <table> with <expr> the chosen template after
\* substitution of the selected column; it holds no {column} placeholder; and
\* the Run step of a template that requires a column is taken only with a
\* column selected, and sends that statement or nothing (a cached result).
C11_DmfStatementsShapedAndSubstituted ==
    /\ [](\A j \in 1..Len(log) :
            (log[j].op = "sql" /\ log[j].stmt \notin BranchStmts) =>
                /\ selected_function_name \in Range(DmfNames)
                /\ selected_table_dmf \in DmfTables
                /\ log[j].stmt = ShapedDmfStmt(selected_function_name, selected_column,
                                               selected_table_dmf)
                /\ \A fn \in Range(DmfNames) :
                      Placeholders(get_dmf_functions[fn]) > 0 =>
                          log[j].stmt # UnsubstitutedDmfStmt(fn, selected_table_dmf)
                /\ Placeholders(get_dmf_functions[selected_function_name]) > 0 =>
                      selected_column # "")
    /\ [](pc = "dmf_run" =>
            (Placeholders(get_dmf_functions[selected_function_name]) > 0 =>
                selected_column # ""))
    /\ [][pc = "dmf_run" =>
            \/ log' = log
            \/ /\ Len(log') = Len(log) + 1
               /\ log'[Len(log')].stmt = ShapedDmfStmt(selected_function_name,
                                                       selected_column, selected_table_dmf)]_vars

\* C11 witness: NULL_COUNT of column EMAIL was sent for table ASSETMASTER.
C11_Witness ==
    /\ pc = "idle"
    /\ selected_function_name = "NULL_COUNT"
    /\ \E j \in 1..Len(log) :
          /\ log[j].op = "sql"
          /\ log[j].stmt =
                "SELECT COUNT_IF(\"EMAIL\" IS NULL) AS \"Result\" FROM TFO.TFO_SCHEMA.ASSETMASTER"


(***************************************************************************)
(* The candidate list and the re-rank of filter_schema, checked under      *)
(* SpecFilter.                                                             *)
(***************************************************************************)
\* how often text c occurs in the list
Occurrences(list, c) == Cardinality({i \in 1..Len(list) : list[i] = c})

\* C12: for a document of fewer than 5 blocks the candidate list built before
\* the keyword re-rank holds every block of the document exactly once: it is
\* as long as the block list, and every block text occurs in it as often as in
\* the document.
C12_FewBlocksAllCandidates ==
    LET chunks == schema_chunks(schema_text)
    IN  (fs_pc = "done" /\ Len(chunks) >= 1 /\ Len(chunks) < 5) =>
            /\ Len(fs_out.candidates) = Len(chunks)
            /\ \A i \in 1..Len(chunks) :
                  Occurrences(fs_out.candidates, chunks[i]) = Occurrences(chunks, chunks[i])

\* C12 witness: a document of four blocks, two of them with the same text, all
\* four of which are candidates.
C12_Witness ==
    LET chunks == schema_chunks(schema_text)
    IN  /\ fs_pc = "done"
        /\ Len(chunks) = 4
        /\ Cardinality(Range(chunks)) = 2
        /\ Len(fs_out.candidates) = 4
        /\ Range(fs_out.candidates) = Range(chunks)


\* the positions of the document's blocks by descending similarity, blocks of
\* equal similarity by ascending position, cut to the first k
DescendingEarlierFirst(chunks, sm, k) ==
    LET n == Len(chunks)
        Before(i, j) ==
            \/ sm[chunks[i]] > sm[chunks[j]]
            \/ sm[chunks[i]] = sm[chunks[j]] /\ i < j
        Place(i) == Cardinality({j \in 1..n : Before(j, i)}) + 1
    IN  [p \in 1..k |-> CHOOSE i \in 1..n : Place(i) = p]

\* C14 as stated: the candidate list is the first min(5, N) blocks by
\* descending similarity, blocks of equal similarity in their order in the
\* document (so that on a tie at the cut-off the earlier block is kept).
C14_CandidatesDescendingTiesByPosition ==
    LET chunks == schema_chunks(schema_text)
        k == IF Len(chunks) < 5 THEN Len(chunks) ELSE 5
        want == DescendingEarlierFirst(chunks, sims, k)
    IN  (fs_pc = "done" /\ chunks # <<>>) =>
            fs_out.candidates = [p \in 1..k |-> chunks[want[p]]]


\* whether the block contains the table name, ignoring case: its keyword score
\* for the one-keyword list filter_schema uses (1 or 0)
Covers(block, tn) ==
    \E i \in 1..Len(block) :
        \E j \in i..Len(block) :
            /\ j - i + 1 = Len(tn)
            /\ \A k \in 1..Len(tn) : LowerChar(block[i + k - 1]) = LowerChar(tn[k])

\* C15: the returned block is the first block of the candidate list (which is
\* in semantic-similarity order) among the candidates with the highest keyword
\* score; no candidate with that score is more similar to the query than it.
C15_BestIsFirstOfTopScore ==
    LET cands == fs_out.candidates
        top == IF \E i \in 1..Len(cands) : Covers(cands[i], table_name)
               THEN {i \in 1..Len(cands) : Covers(cands[i], table_name)}
               ELSE 1..Len(cands)
    IN  (fs_pc = "done" /\ fs_out.kind = "return") =>
            /\ \E i \in top :
                  /\ fs_out.value = cands[i]
                  /\ \A j \in top : i <= j
            /\ \A j \in top : sims[fs_out.value] >= sims[cands[j]]
            /\ \A p, q \in 1..Len(cands) : p < q => sims[cands[p]] >= sims[cands[q]]

\* C15 witness: two different blocks both contain the table name; the second
\* block of the document is the more similar one, so it is the first candidate,
\* and it is the block returned.
C15_Witness ==
    LET cands == fs_out.candidates
        chunks == schema_chunks(schema_text)
    IN  /\ fs_pc = "done"
        /\ fs_out.kind = "return"
        /\ Len(chunks) = 2
        /\ chunks[1] # chunks[2]
        /\ Covers(chunks[1], table_name)
        /\ Covers(chunks[2], table_name)
        /\ sims[chunks[2]] > sims[chunks[1]]
        /\ cands = <<chunks[2], chunks[1]>>
        /\ fs_out.value = chunks[2]


(***************************************************************************)
(* get_cortex_completion, checked under SpecScripts.                       *)
(***************************************************************************)
\* C16 as stated: however get_cortex_completion ends (whichever of connecting,
\* creating the cursor, executing and fetching failed), it has returned a
\* string, no exception has left it, and no connection it opened is open.
C16_AlwaysReturnsAndCloses ==
    (prog = "cortex_complete" /\ cx_pc \in {"returned", "done"}) =>
        /\ cx_out.kind = "returned"
        /\ cx_conn # "open"


(***************************************************************************)
(* The Data Quality Analysis action, checked under Spec.                   *)
(***************************************************************************)
\* the place of a statement in the order total count, duplicate count,
\* duplicate rows; 0 for any other statement
DqPlace(stmt) ==
    CASE stmt = "SELECT COUNT(*) FROM TFO.TFO_SCHEMA." \o selected_table \o ";" -> 1
      [] stmt = "SELECT COUNT(*) FROM " \o selected_table \o "_duplicate_records;" -> 2
      [] stmt = "SELECT * FROM " \o selected_table \o "_duplicate_records LIMIT 50;" -> 3
      [] OTHER -> 0

\* the DMF controls are on the screen
DmfControlsShown ==
    \E k \in 1..Len(screen) :
        screen[k].label = "Select a DMF function to analyze data quality."

\* the duplicate count the run has rendered, -1 when it has rendered none
DuplicatesShown ==
    IF \E k \in 1..Len(screen) : screen[k].label = "Total Duplicate Records Found"
    THEN screen[CHOOSE k \in 1..Len(screen) :
                    screen[k].label = "Total Duplicate Records Found"].value
    ELSE -1

\* C17: in a run of the Data Quality Analysis action the statements sent are in
\* the order total count, duplicate count, duplicate rows, each at most once;
\* the duplicate-rows statement is sent only after a duplicate count greater
\* than 0 has been rendered; and the DMF controls are shown only when none of
\* the three queries has failed and both counts, and the rows when there are
\* duplicates, have been rendered.
C17_DqStatementsInOrder ==
    action = "1. Data Quality Analysis" =>
        /\ \A i, j \in 1..Len(log) :
              (i < j /\ log[i].op = "sql" /\ log[j].op = "sql" /\ DqPlace(log[i].stmt) > 0)
                  => (DqPlace(log[j].stmt) = 0 \/ DqPlace(log[i].stmt) < DqPlace(log[j].stmt))
        /\ (\E j \in 1..Len(log) : log[j].op = "sql" /\ DqPlace(log[j].stmt) = 3)
              => DuplicatesShown > 0
        /\ pc = "dq_rows" => DuplicatesShown > 0
        /\ (DmfControlsShown \/ pc \in {"dmf", "dmf_run"}) =>
              /\ \A q \in FailedStmts : DqPlace(q) = 0
              /\ \E k \in 1..Len(screen) : screen[k].label = "Total Records"
              /\ DuplicatesShown >= 0
              /\ DuplicatesShown > 0 =>
                    \E k \in 1..Len(screen) :
                        /\ screen[k].kind \in {"dataframe", "warning"}
                        /\ DqPlace(screen[k].src) = 3
                           \/ screen[k].label = "Could not retrieve the list of duplicate records."

\* C17 witness: a run sent the three statements in order, found 2 duplicates,
\* rendered the rows and then showed the DMF controls.
C17_Witness ==
    /\ action = "1. Data Quality Analysis"
    /\ pc = "idle"
    /\ Len(log) >= 3
    /\ DqPlace(log[1].stmt) = 1
    /\ DqPlace(log[2].stmt) = 2
    /\ DqPlace(log[3].stmt) = 3
    /\ DuplicatesShown = 2
    /\ DmfControlsShown

=============================================================================
